---- MODULE Spec2Model ----
(***************************************************************************)
(* confd: the redis backend client (backends/redis/client.go) and the      *)
(* supervisor loop of main().                                              *)
(*                                                                         *)
(* Strings are sequences of one-character strings, so that the string      *)
(* functions the code calls (strings.Replace, strings.Split, strconv.Atoi, *)
(* the glob match of SCAN) are computed and not assumed.                   *)
(***************************************************************************)
EXTENDS Integers, Sequences, FiniteSets, TLC

VARIABLES
    c,          \* the Client struct: client (session id or NoConn), machines, password
    phase,      \* "new" | "ready" | "failed" | "fatal" | "panic": the client's process
    store,      \* the redis key space: key -> value or NoVal
    dead,       \* session ids whose connection met a fatal transport error
    op,         \* the store operation in progress (GetValues runs command by command)
    last,       \* the last store command the operation issued, with its reply
    conn,       \* what the last connectedClient / NewRedisClient call did
    prev,       \* the last Set/Remove that completed, until the store changes again
    watch,      \* the WatchPrefix call: pc and return value
    stopChan,   \* the stop channel handed to WatchPrefix
    mainPc,     \* position of main()
    cfg,        \* flags and outcomes main() reads at start-up
    doneChan,   \* done channel: made, closed, number of close() calls
    stopMade,   \* main's stopChan was made (it is never closed or sent on by main)
    errChan,    \* number of errors buffered in errChan
    signalChan, \* number of signals buffered in signalChan
    sigCount,   \* signals the OS delivered so far
    procs,      \* goroutines and collaborators started: processor, web server, renderer runs
    exitCode    \* exit status once the process is gone, else NoExit

clientVars == <<c, phase, store, dead, op, last, conn, prev>>
watchVars == <<watch, stopChan>>
mainVars == <<mainPc, cfg, doneChan, stopMade, errChan, signalChan, sigCount, procs, exitCode>>
vars == <<clientVars, watchVars, mainVars>>

----------------------------------------------------------------------------
(* Bounds *)

MaxMachines == 2
MaxKeys == 2
PageSize == 2
MaxSignals == 2
MaxWaitIndex == 1
MaxChanges == 1

----------------------------------------------------------------------------
(* Strings *)

RECURSIVE Replace(_)
\* strings.Replace(key, "/*", "", -1): every non-overlapping "/*", left to right
Replace(s) ==
    IF Len(s) < 2 THEN s
    ELSE IF s[1] = "/" /\ s[2] = "*" THEN Replace(SubSeq(s, 3, Len(s)))
    ELSE <<s[1]>> \o Replace(Tail(s))

RECURSIVE HasMarker(_)
\* the string holds the substring "/*"
HasMarker(s) ==
    IF Len(s) < 2 THEN FALSE
    ELSE (s[1] = "/" /\ s[2] = "*") \/ HasMarker(Tail(s))

RECURSIVE Split(_, _)
\* strings.Split(s, sep) for a one-character separator
Split(s, sep) ==
    IF \A i \in 1..Len(s) : s[i] # sep THEN <<s>>
    ELSE LET i == CHOOSE j \in 1..Len(s) : s[j] = sep /\ \A k \in 1..(j-1) : s[k] # sep
         IN  <<SubSeq(s, 1, i-1)>> \o Split(SubSeq(s, i+1, Len(s)), sep)

Digits == <<"0", "1", "2", "3", "4", "5", "6", "7", "8", "9">>

DigitVal(ch) == (CHOOSE i \in 1..10 : Digits[i] = ch) - 1

IsDigit(ch) == \E i \in 1..10 : Digits[i] = ch

RECURSIVE AtoiVal(_)
AtoiVal(s) == IF s = <<>> THEN 0 ELSE 10 * AtoiVal(SubSeq(s, 1, Len(s)-1)) + DigitVal(s[Len(s)])

\* strconv.Atoi over the unsigned decimal strings of the model's alphabet
Atoi(s) ==
    IF s # <<>> /\ \A i \in 1..Len(s) : IsDigit(s[i])
    THEN [ok |-> TRUE, n |-> AtoiVal(s)]
    ELSE [ok |-> FALSE, n |-> 0]

RECURSIVE GlobMatch(_, _)
\* redis MATCH: "*" matches any run of characters, any other character itself
GlobMatch(p, s) ==
    IF p = <<>> THEN s = <<>>
    ELSE IF p[1] = "*" THEN GlobMatch(Tail(p), s) \/ (s # <<>> /\ GlobMatch(p, Tail(s)))
    ELSE s # <<>> /\ s[1] = p[1] /\ GlobMatch(Tail(p), Tail(s))

----------------------------------------------------------------------------
(* Values of the model *)

NoConn == 0
NoVal == "nil"
NoExit == -1
Values == {"x", "y"}

\* errors: e names the kind, at the endpoint (dial errors), key the key (Remove)
Err(e, at, key) == [e |-> e, at |-> at, key |-> key]
Nil == Err("nil", 0, <<>>)
ErrNil == Err("redigo: nil returned", 0, <<>>)
NetErr == Err("transport", 0, <<>>)
DialErr(i) == Err("dial", i, <<>>)
NotExist(key) == Err("not exist", 0, key)

\* endpoints
epNet == <<"h", ":", "1">>
epNetDb == <<"h", ":", "1", "/", "2">>
epSock == <<"/", "r", "/", "s">>
epBad == <<"h", "/", "x">>
Endpoints == {epNet, epNetDb, epSock, epBad}
FsPaths == {epSock}
Passwords == {"", "pw"}

RECURSIVE SeqsUpTo(_, _)
SeqsUpTo(S, n) ==
    IF n = 0 THEN {<<>>}
    ELSE LET shorter == SeqsUpTo(S, n-1)
         IN  shorter \cup {Append(s, x) : s \in {t \in shorter : Len(t) = n-1}, x \in S}

NoRepeat(s) == \A i, j \in 1..Len(s) : s[i] = s[j] => i = j

MachineLists == SeqsUpTo(Endpoints, MaxMachines) \ {<<>>}

\* keys
kRoot == <<"/">>
kA == <<"/", "a">>
kAB == <<"/", "a", "/", "b">>
kAStar == <<"/", "a", "/", "*">>
kASlash == <<"/", "a", "/">>
\* the key space of the store, in the order SCAN walks it
KeySpace == <<kA, kAB, kAStar>>
StoreKeys == {KeySpace[i] : i \in 1..Len(KeySpace)}
ReqKeys == {kRoot, kA, kAStar, kASlash}
\* the key lists GetValues is called with: each key once
KeyLists == {s \in SeqsUpTo(ReqKeys, MaxKeys) : NoRepeat(s)}

----------------------------------------------------------------------------
(* ConnectionManager: tryConnect, connectedClient, NewRedisClient *)

\* one call of redis.Dial: for which endpoint, with what arguments, accepted or not
Dialed(endpoint, network, address, database, auth, ok) ==
    [endpoint |-> endpoint, network |-> network, address |-> address, database |-> database,
     auth |-> auth, ok |-> ok]

\* a mutant of TryConnectFrom: keeps the first dial error instead of the last
RECURSIVE TryConnectFromFirstErr(_, _, _, _, _, _, _)
TryConnectFromFirstErr(machines, password, outs, sid, i, err, dials) ==
    IF i > Len(machines) THEN [conn |-> NoConn, err |-> err, dials |-> dials, fatal |-> FALSE]
    ELSE LET address == machines[i]
             network == IF address \in FsPaths THEN "unix" ELSE "tcp"
             arr == Split(address, "/")
             db == IF Len(arr) = 2 THEN Atoi(arr[2]) ELSE [ok |-> TRUE, n |-> 0]
             d == Dialed(address, network, arr[1], db.n, password # "", outs[i])
         IN  IF ~db.ok
             THEN [conn |-> NoConn, err |-> err, dials |-> dials, fatal |-> TRUE]
             ELSE IF outs[i]
             THEN [conn |-> sid, err |-> Nil, dials |-> Append(dials, d), fatal |-> FALSE]
             ELSE TryConnectFromFirstErr(machines, password, outs, sid, i + 1,
                                 IF err = Nil THEN DialErr(i) ELSE err, Append(dials, d))

\* the loop of tryConnect from endpoint i on; outs[i] says whether redis.Dial of
\* endpoint i is accepted, sid is the session a successful Dial returns
RECURSIVE TryConnectFrom(_, _, _, _, _, _, _)
TryConnectFrom(machines, password, outs, sid, i, err, dials) ==
    IF i > Len(machines) THEN [conn |-> NoConn, err |-> err, dials |-> dials, fatal |-> FALSE]
    ELSE LET address == machines[i]
             network == IF address \in FsPaths THEN "unix" ELSE "tcp"
             arr == Split(address, "/")
             db == IF Len(arr) = 2 THEN Atoi(arr[2]) ELSE [ok |-> TRUE, n |-> 0]
             d == Dialed(address, network, arr[1], db.n, password # "", outs[i])
         IN  IF ~db.ok
             THEN \* log.Fatal("invalid address"): the process is gone
                  [conn |-> NoConn, err |-> err, dials |-> dials, fatal |-> TRUE]
             ELSE IF outs[i]
             THEN [conn |-> sid, err |-> Nil, dials |-> Append(dials, d), fatal |-> FALSE]
             ELSE TryConnectFrom(machines, password, outs, sid, i + 1, DialErr(i), Append(dials, d))

tryConnect(machines, password, outs, sid) ==
    TryConnectFrom(machines, password, outs, sid, 1, Nil, <<>>)

DialOutcomes(machines) == [1..Len(machines) -> BOOLEAN]

ProbeOutcomes == {"PONG", "neterr", "badreply"}

\* c.client.Do("PING"): the reply and the error
Ping(probe) ==
    CASE probe = "PONG" -> [resp |-> "PONG", err |-> Nil]
      [] probe = "neterr" -> [resp |-> "", err |-> NetErr]
      [] OTHER -> [resp |-> "QUEUED", err |-> Nil]

\* a mutant of ProbeUnusable: the reply is not looked at
ProbeUnusableErrOnly(r) == r.err # Nil

\* the condition of line 74
ProbeUnusable(r) == (r.err # Nil /\ r.err = ErrNil) \/ r.resp # "PONG"

NoProbe == "none"

\* a mutant of NeedsConnect: the connect step runs whether or not a session is held
NeedsConnectAlways(client) == TRUE

\* the condition of line 82
NeedsConnect(client) == client = NoConn

\* a mutant of ReturnedSession: the session held on entry is returned when there
\* was one
ReturnedSessionHeld(before, panics, reconnect, t, afterProbe) ==
    IF panics THEN NoConn
    ELSE IF before # NoConn THEN before
    ELSE IF reconnect THEN (IF t.err # Nil THEN NoConn ELSE t.conn)
    ELSE afterProbe

\* lines 82-90: the session connectedClient returns
ReturnedSession(before, panics, reconnect, t, afterProbe) ==
    IF panics THEN NoConn
    ELSE IF reconnect THEN (IF t.err # Nil THEN NoConn ELSE t.conn)
    ELSE afterProbe

\* connectedClient on client struct cl; probe is the outcome of the PING (read only
\* when a session exists), outs and sid are tryConnect's
connectedClient(cl, probe, outs, sid) ==
    LET r == Ping(probe)
        probed == cl.client # NoConn
        unusable == probed /\ ProbeUnusable(r)
        \* err.Error() of line 76 with err == nil: nil pointer dereference
        panics == unusable /\ r.err = Nil
        afterProbe == IF unusable /\ ~panics THEN NoConn ELSE cl.client
        reconnect == ~panics /\ NeedsConnect(afterProbe)
        t == tryConnect(cl.machines, cl.password, outs, sid)
    IN  [ probe   |-> IF probed THEN probe ELSE NoProbe,
          before  |-> cl.client,
          panic   |-> panics,
          passes  |-> IF reconnect THEN 1 ELSE 0,
          dials   |-> IF reconnect THEN t.dials ELSE <<>>,
          fatal   |-> reconnect /\ t.fatal,
          client  |-> IF reconnect THEN t.conn ELSE afterProbe,
          err     |-> IF reconnect THEN t.err ELSE Nil,
          rClient |-> ReturnedSession(cl.client, panics, reconnect, t, afterProbe) ]

NoCall ==
    [probe |-> NoProbe, before |-> NoConn, panic |-> FALSE, passes |-> 0, dials |-> <<>>,
     fatal |-> FALSE, client |-> NoConn, err |-> Nil, rClient |-> NoConn]

\* the outcomes connectedClient can meet on client struct cl: of the PING (a PING on a
\* session whose transport failed can only fail) and, when it reconnects, of the dials
AllRefuse(machines) == [i \in 1..Len(machines) |-> FALSE]

ConnOutcomes(cl) ==
    LET probes == IF cl.client = NoConn THEN {NoProbe}
                  ELSE IF cl.client \in dead THEN {"neterr"} ELSE ProbeOutcomes
    IN  {<<p, outs>> : p \in probes \ {"PONG", "badreply"}, outs \in DialOutcomes(cl.machines)}
        \cup {<<p, AllRefuse(cl.machines)>> : p \in probes \cap {"PONG", "badreply"}}

\* the process state a connectedClient call leaves
PhaseAfter(cc) == IF cc.panic THEN "panic" ELSE IF cc.fatal THEN "fatal" ELSE "ready"

\* the session a successful redis.Dial returns: one the client does not hold. The two
\* ids are reused, an id only once nothing refers to its former session
FreshSid(cl) == IF cl.client = 1 THEN 2 ELSE 1

\* NewRedisClient(machines, password), then main's check of backends.New's error
NewRedisClient ==
    /\ phase = "new"
    /\ \E outs \in DialOutcomes(c.machines) :
         LET t == tryConnect(c.machines, c.password, outs, FreshSid(c))
         IN  /\ c' = [c EXCEPT !.client = t.conn]
             /\ conn' = [NoCall EXCEPT !.passes = 1, !.dials = t.dials, !.fatal = t.fatal,
                                       !.client = t.conn, !.err = t.err, !.rClient = t.conn]
             /\ phase' = IF t.fatal THEN "fatal" ELSE IF t.err # Nil THEN "failed" ELSE "ready"
             /\ dead' = {}
    /\ UNCHANGED <<store, op, last, prev, watchVars, mainVars>>

----------------------------------------------------------------------------
(* The store as the client's commands see it. Every endpoint of the list leads   *)
(* to the same key space. A command either reaches the store or fails with a     *)
(* transport error, after which every later command on that session fails too;   *)
(* SCAN never answers with a nil reply.                                           *)

CmdOutcomes == {"ok", "neterr"}

\* a command on a session whose transport failed can only fail
CmdPossible(failed, sess, out) == sess \in failed => out = "neterr"

DeadAfter(live, sess, out) == IF out = "neterr" THEN live \cup {sess} ELSE live

Lookup(st, key) == IF key \in StoreKeys THEN st[key] ELSE NoVal

\* redis.String(rClient.Do("GET", key))
GetReply(st, key, out) ==
    IF out = "neterr" THEN [val |-> "", err |-> NetErr]
    ELSE IF Lookup(st, key) = NoVal THEN [val |-> "", err |-> ErrNil]
    ELSE [val |-> Lookup(st, key), err |-> Nil]

Min(a, b) == IF a < b THEN a ELSE b

RECURSIVE PageItems(_, _, _, _)
\* the keys at positions from..to of the key space that exist and match
PageItems(st, pattern, from, to) ==
    IF from > to THEN <<>>
    ELSE LET k == KeySpace[from]
         IN  (IF st[k] # NoVal /\ GlobMatch(pattern, k) THEN <<k>> ELSE <<>>)
             \o PageItems(st, pattern, from + 1, to)

\* redis.Values(rClient.Do("SCAN", idx, "MATCH", pattern, "COUNT", n)): the server
\* walks n slots of the key space from the cursor and returns those that match
ScanReply(st, cursor, pattern, out) ==
    IF out = "neterr" THEN [cursor |-> 0, items |-> <<>>, err |-> NetErr]
    ELSE LET to == Min(cursor + PageSize, Len(KeySpace))
         IN  [cursor |-> IF to >= Len(KeySpace) THEN 0 ELSE to,
              items  |-> PageItems(st, pattern, cursor + 1, to),
              err    |-> Nil]

EmptyStore == [k \in StoreKeys |-> NoVal]
Stores == [StoreKeys -> Values \cup {NoVal}]

----------------------------------------------------------------------------
(* StoreClient: Set, Remove, GetValues *)

EmptyMap == <<>>

\* vars[key] = value on a Go map
MapPut(m, key, value) == [k \in DOMAIN m \cup {key} |-> IF k = key THEN value ELSE m[k]]

NoCmd ==
    [cmd |-> "none", role |-> "none", key |-> <<>>, sess |-> NoConn, err |-> Nil,
     val |-> "", n |-> 0, items |-> <<>>]

Cmd(cmd, role, key, sess, err, val, n, items) ==
    [cmd |-> cmd, role |-> role, key |-> key, sess |-> sess, err |-> err,
     val |-> val, n |-> n, items |-> items]

NoPrev == [name |-> "none", key |-> <<>>, value |-> "", err |-> Nil]

Idle ==
    [name |-> "none", pc |-> "idle", keys |-> <<>>, key |-> <<>>, value |-> "", i |-> 0,
     pattern |-> <<>>, idx |-> 0, items |-> <<>>, vars |-> EmptyMap, varsNil |-> TRUE,
     err |-> Nil, rClient |-> NoConn, ncmd |-> 0, after |-> NoPrev, changes |-> 0,
     scans |-> 0]

CanCall == phase = "ready" /\ op.pc = "idle"

\* the client fields and bookkeeping every call of connectedClient leaves
Connected(cc) ==
    /\ c' = [c EXCEPT !.client = cc.client]
    /\ conn' = cc
    /\ phase' = PhaseAfter(cc)

\* the failed sessions once connectedClient has run: a new session is a sound one
Live(cc) == IF cc.passes = 1 THEN {} ELSE dead

\* a mutant of ConnFailed: the error of connectedClient is not looked at
ConnFailedNever(cc) == FALSE

\* the guard every operation puts after connectedClient (lines 106, 125, 136)
ConnFailed(cc) == cc.err # Nil /\ cc.err # ErrNil

\* a mutant of StoreSet: SET ... NX, the key is written only when it is absent
StoreSetIfAbsent(st, key, value) == IF st[key] = NoVal THEN [st EXCEPT ![key] = value] ELSE st

\* the effect of SET key value on the store
StoreSet(st, key, value) == [st EXCEPT ![key] = value]

\* Set(key, value)
Set(key, value) ==
    /\ CanCall
    /\ \E co \in ConnOutcomes(c), out \in CmdOutcomes :
         LET cc == connectedClient(c, co[1], co[2], FreshSid(c))
             stopped == cc.panic \/ cc.fatal
             err == IF out = "ok" THEN Nil ELSE NetErr
             sent == ~stopped /\ ~ConnFailed(cc)
         IN  /\ Connected(cc)
             /\ IF sent THEN CmdPossible(Live(cc), cc.rClient, out) ELSE out = "ok"
             /\ op' = [Idle EXCEPT !.name = "Set", !.pc = IF stopped THEN "gone" ELSE "done",
                                   !.key = key, !.value = value, !.rClient = cc.rClient,
                                   !.err = IF sent THEN err ELSE cc.err,
                                   !.ncmd = IF sent THEN 1 ELSE 0]
             /\ last' = IF sent THEN Cmd("SET", "set", key, cc.rClient, err, value, 0, <<>>)
                        ELSE NoCmd
             /\ store' = IF sent /\ out = "ok" THEN StoreSet(store, key, value) ELSE store
             /\ dead' = IF sent THEN DeadAfter(Live(cc), cc.rClient, out) ELSE Live(cc)
             /\ prev' = IF sent /\ out = "ok"
                        THEN [name |-> "Set", key |-> key, value |-> value, err |-> Nil]
                        ELSE NoPrev
    /\ UNCHANGED <<watchVars, mainVars>>

\* a mutant of RemoveResult: the count of deleted keys is not looked at
RemoveResultAnyCount(key, n, err) == IF err = Nil THEN Nil ELSE err

\* lines 110-118: the error Remove returns for DEL's reply (n, err)
RemoveResult(key, n, err) ==
    IF err = Nil THEN (IF n > 0 THEN Nil ELSE NotExist(key)) ELSE err

\* Remove(key)
Remove(key) ==
    /\ CanCall
    /\ \E co \in ConnOutcomes(c), out \in CmdOutcomes :
         LET cc == connectedClient(c, co[1], co[2], FreshSid(c))
             stopped == cc.panic \/ cc.fatal
             n == IF out = "ok" /\ store[key] # NoVal THEN 1 ELSE 0
             derr == IF out = "ok" THEN Nil ELSE NetErr
             sent == ~stopped /\ ~ConnFailed(cc)
             ret == IF sent THEN RemoveResult(key, n, derr) ELSE cc.err
         IN  /\ Connected(cc)
             /\ IF sent THEN CmdPossible(Live(cc), cc.rClient, out) ELSE out = "ok"
             /\ op' = [Idle EXCEPT !.name = "Remove", !.pc = IF stopped THEN "gone" ELSE "done",
                                   !.key = key, !.rClient = cc.rClient, !.err = ret,
                                   !.ncmd = IF sent THEN 1 ELSE 0]
             /\ last' = IF sent THEN Cmd("DEL", "del", key, cc.rClient, derr, "", n, <<>>)
                        ELSE NoCmd
             /\ store' = IF sent /\ out = "ok" THEN [store EXCEPT ![key] = NoVal] ELSE store
             /\ dead' = IF sent THEN DeadAfter(Live(cc), cc.rClient, out) ELSE Live(cc)
             /\ prev' = IF sent /\ out = "ok"
                        THEN [name |-> "Remove", key |-> key, value |-> "", err |-> ret]
                        ELSE NoPrev
    /\ UNCHANGED <<watchVars, mainVars>>

\* GetValues(keys), lines 133-140: connectedClient, its guard, vars := make(map)
GetValuesCall(keys) ==
    /\ CanCall
    /\ \E co \in ConnOutcomes(c) :
         LET cc == connectedClient(c, co[1], co[2], FreshSid(c))
             stopped == cc.panic \/ cc.fatal
             failed == ConnFailed(cc)
         IN  /\ Connected(cc)
             /\ op' = [Idle EXCEPT !.name = "GetValues",
                                   !.pc = IF stopped THEN "gone"
                                          ELSE IF failed \/ keys = <<>> THEN "done" ELSE "get",
                                   !.keys = keys, !.i = 1, !.rClient = cc.rClient,
                                   !.varsNil = stopped \/ failed,
                                   !.err = IF failed THEN cc.err ELSE Nil,
                                   !.after = IF keys = <<prev.key>> THEN prev ELSE NoPrev]
             /\ dead' = Live(cc)
    /\ last' = NoCmd
    /\ prev' = NoPrev
    /\ UNCHANGED <<store, watchVars, mainVars>>

\* the for loop of line 141 moves to the next key, or the call returns (vars, nil)
NextKey(o) ==
    IF o.i < Len(o.keys)
    THEN [o EXCEPT !.i = o.i + 1, !.pc = "get", !.pattern = <<>>, !.idx = 0, !.items = <<>>,
                   !.scans = 0]
    ELSE [o EXCEPT !.pc = "done", !.err = Nil, !.pattern = <<>>, !.idx = 0, !.items = <<>>,
                   !.scans = 0]

\* a mutant of AfterPage: the page loop is left after the first page
AfterPageBreak(o) == NextKey(o)

\* the end of the page loop body, lines 176-178
AfterPage(o) == IF o.idx = 0 THEN NextKey(o) ELSE [o EXCEPT !.pc = "scan", !.items = <<>>]

\* lines 153-157
ScanPattern(key) == IF key = kRoot THEN <<"/", "*">> ELSE key \o <<"/", "*">>

\* a mutant of AfterLookup: every error of the point lookup starts the prefix scan
AfterLookupScanOnAnyError(o, key, r) ==
    IF r.err = Nil THEN NextKey([o EXCEPT !.vars = MapPut(o.vars, key, r.val)])
    ELSE [o EXCEPT !.pc = "scan", !.pattern = ScanPattern(key), !.idx = 0]

\* lines 144-159: what GetValues does with the reply r of the point lookup of key
AfterLookup(o, key, r) ==
    IF r.err = Nil THEN NextKey([o EXCEPT !.vars = MapPut(o.vars, key, r.val)])
    ELSE IF r.err # ErrNil THEN [o EXCEPT !.pc = "done", !.err = r.err]
    ELSE [o EXCEPT !.pc = "scan", !.pattern = ScanPattern(key), !.idx = 0]

\* lines 142-143: strip the wildcard marker, point lookup
GetValuesGet ==
    /\ phase = "ready" /\ op.name = "GetValues" /\ op.pc = "get"
    /\ \E out \in CmdOutcomes :
         LET key == Replace(op.keys[op.i])
             r == GetReply(store, key, out)
         IN  /\ CmdPossible(dead, op.rClient, out)
             /\ dead' = DeadAfter(dead, op.rClient, out)
             /\ last' = Cmd("GET", "point", key, op.rClient, r.err, r.val, 0, <<>>)
             /\ op' = [AfterLookup(op, key, r) EXCEPT !.ncmd = op.ncmd + 1]
    /\ conn' = NoCall
    /\ UNCHANGED <<c, phase, store, prev, watchVars, mainVars>>

\* lines 161-166: what GetValues does with the reply r of a SCAN call
AfterScan(o, r) ==
    IF r.err # Nil /\ r.err # ErrNil
    THEN [o EXCEPT !.pc = "done", !.err = r.err, !.scans = o.scans + 1]
    ELSE LET o2 == [o EXCEPT !.idx = r.cursor, !.items = r.items, !.scans = o.scans + 1]
         IN  IF r.items = <<>> THEN AfterPage(o2) ELSE [o2 EXCEPT !.pc = "follow"]

\* line 161: one SCAN call
GetValuesScan ==
    /\ phase = "ready" /\ op.name = "GetValues" /\ op.pc = "scan"
    /\ \E out \in CmdOutcomes :
         LET r == ScanReply(store, op.idx, op.pattern, out)
         IN  /\ CmdPossible(dead, op.rClient, out)
             /\ dead' = DeadAfter(dead, op.rClient, out)
             /\ last' = Cmd("SCAN", "scan", op.pattern, op.rClient, r.err, "", op.idx, r.items)
             /\ op' = [AfterScan(op, r) EXCEPT !.ncmd = op.ncmd + 1]
    /\ conn' = NoCall
    /\ UNCHANGED <<c, phase, store, prev, watchVars, mainVars>>

\* a mutant of AfterFollowUp: the value is stored whatever the lookup's error
AfterFollowUpAlways(o, newKey, r) ==
    LET o2 == [o EXCEPT !.vars = MapPut(o.vars, newKey, r.val), !.items = Tail(o.items)]
    IN  IF o2.items = <<>> THEN AfterPage(o2) ELSE o2

\* lines 172-174: what GetValues does with the reply r of the follow-up lookup
AfterFollowUp(o, newKey, r) ==
    LET o2 == [o EXCEPT !.vars = IF r.err = Nil THEN MapPut(o.vars, newKey, r.val) ELSE o.vars,
                        !.items = Tail(o.items)]
    IN  IF o2.items = <<>> THEN AfterPage(o2) ELSE o2

\* lines 167-175: the follow-up lookup of the next matched key of the page
GetValuesFollow ==
    /\ phase = "ready" /\ op.name = "GetValues" /\ op.pc = "follow"
    /\ \E out \in CmdOutcomes :
         LET newKey == Head(op.items)
             r == GetReply(store, newKey, out)
         IN  /\ CmdPossible(dead, op.rClient, out)
             /\ dead' = DeadAfter(dead, op.rClient, out)
             /\ last' = Cmd("GET", "follow", newKey, op.rClient, r.err, r.val, 0, <<>>)
             /\ op' = [AfterFollowUp(op, newKey, r) EXCEPT !.ncmd = op.ncmd + 1]
    /\ conn' = NoCall
    /\ UNCHANGED <<c, phase, store, prev, watchVars, mainVars>>

\* the caller takes the result of the operation; the next one can start
Return ==
    /\ phase = "ready" /\ op.pc = "done"
    /\ op' = Idle /\ last' = NoCmd /\ conn' = NoCall
    /\ UNCHANGED <<c, phase, store, dead, prev, watchVars, mainVars>>

\* another client of the store writes or deletes a key
StoreChange(key, value) ==
    /\ phase = "ready"
    /\ \/ op.pc \in {"get", "scan", "follow"} /\ op.changes < MaxChanges
       \/ watch.pc = "blocked"
    /\ store[key] # value
    /\ store' = [store EXCEPT ![key] = value]
    /\ prev' = NoPrev
    /\ op' = IF op.pc = "idle" THEN op
             ELSE [op EXCEPT !.after = NoPrev, !.changes = op.changes + 1]
    /\ UNCHANGED <<c, phase, dead, last, conn, watchVars, mainVars>>

----------------------------------------------------------------------------
(* Initial states and the specification of the store client *)

WatchIdle == [pc |-> "idle", prefix |-> <<>>, waitIndex |-> 0, index |-> 0, err |-> Nil]
ChanOpen == [closed |-> FALSE, senders |-> 0, taken |-> 0]
NoDone == [made |-> FALSE, closed |-> FALSE, closes |-> 0]
NoCfg == [printVersion |-> FALSE, configOk |-> TRUE, backendOk |-> TRUE, onetime |-> FALSE,
          renderOk |-> TRUE, watch |-> FALSE]
NoProcs == [processor |-> "none", web |-> FALSE, renders |-> 0, notified |-> FALSE]

WatchInit == watch = WatchIdle /\ stopChan = ChanOpen

MainIdle ==
    /\ mainPc = "off" /\ cfg = NoCfg /\ doneChan = NoDone /\ stopMade = FALSE
    /\ errChan = 0 /\ signalChan = 0 /\ sigCount = 0 /\ procs = NoProcs /\ exitCode = NoExit

\* the endpoint lists the store client is run with: a network endpoint with a
\* second one behind it, with and without a database index
ClientMachines == {<<epNet, epNetDb>>}

ClientInit ==
    /\ c \in [client : {NoConn}, machines : ClientMachines, password : {""}]
    /\ phase = "new"
    /\ store \in Stores
    /\ dead = {}
    /\ op = Idle /\ last = NoCmd /\ conn = NoCall /\ prev = NoPrev

Init == ClientInit /\ WatchInit /\ MainIdle

Next ==
    \/ NewRedisClient
    \/ \E key \in StoreKeys, value \in Values : Set(key, value)
    \/ \E key \in StoreKeys : Remove(key)
    \/ \E keys \in KeyLists : GetValuesCall(keys)
    \/ GetValuesGet
    \/ GetValuesScan
    \/ GetValuesFollow
    \/ Return
    \/ \E key \in StoreKeys, value \in Values \cup {NoVal} : StoreChange(key, value)

Spec == Init /\ [][Next]_vars

\* a GetValues call that was entered runs its next command
SpecFair ==
    Spec /\ WF_vars(GetValuesGet) /\ WF_vars(GetValuesScan) /\ WF_vars(GetValuesFollow)

----------------------------------------------------------------------------
(* WatchPrefix and the stop channel its caller holds *)

\* a mutant of StopFired: the receive of line 186 does not wait
StopFiredAlways(ch) == TRUE

\* <-stopChan can proceed: a sender is waiting, or the channel is closed
StopFired(ch) == ch.closed \/ ch.senders > 0

\* WatchPrefix is entered and blocks on line 186
WatchPrefixCall(prefix, waitIndex) ==
    /\ phase = "ready" /\ watch.pc = "idle"
    /\ watch' = [WatchIdle EXCEPT !.pc = "blocked", !.prefix = prefix, !.waitIndex = waitIndex]
    /\ UNCHANGED <<clientVars, stopChan, mainVars>>

\* lines 186-187: the receive completes and WatchPrefix returns (0, nil)
WatchPrefixReturn ==
    /\ phase = "ready" /\ watch.pc = "blocked"
    /\ StopFired(stopChan)
    /\ watch' = [watch EXCEPT !.pc = "returned", !.index = 0, !.err = Nil]
    /\ stopChan' = IF stopChan.closed THEN stopChan
                   ELSE [stopChan EXCEPT !.senders = 0, !.taken = 1]
    /\ UNCHANGED <<clientVars, mainVars>>

\* the caller of WatchPrefix sends on the unbuffered stop channel
StopSend ==
    /\ phase = "ready" /\ ~stopChan.closed /\ stopChan.senders = 0 /\ stopChan.taken = 0
    /\ stopChan' = [stopChan EXCEPT !.senders = 1]
    /\ UNCHANGED <<clientVars, watch, mainVars>>

\* the caller of WatchPrefix closes the stop channel
StopClose ==
    /\ phase = "ready" /\ ~stopChan.closed /\ stopChan.senders = 0
    /\ stopChan' = [stopChan EXCEPT !.closed = TRUE]
    /\ UNCHANGED <<clientVars, watch, mainVars>>

WatchNext ==
    \/ NewRedisClient
    \/ \E key \in StoreKeys, value \in Values \cup {NoVal} : StoreChange(key, value)
    \/ \E prefix \in ReqKeys, waitIndex \in 0..MaxWaitIndex : WatchPrefixCall(prefix, waitIndex)
    \/ WatchPrefixReturn
    \/ StopSend
    \/ StopClose

SpecWatch == Init /\ [][WatchNext]_vars

\* the receive of line 186 is taken once it can proceed
SpecWatchFair == SpecWatch /\ WF_vars(WatchPrefixReturn)

----------------------------------------------------------------------------
(* ProcessorSupervisor: main() *)

ErrChanCap == 10
SignalChanCap == 1
FatalStatus == 1
PanicStatus == 2

Alive == exitCode = NoExit /\ mainPc # "off"

Exit(status) == mainPc' = "exited" /\ exitCode' = status

\* lines 17-24: flag.Parse, the version flag, initConfig
MainConfig ==
    /\ Alive /\ mainPc = "start"
    /\ IF cfg.printVersion THEN Exit(0)
       ELSE IF ~cfg.configOk THEN Exit(FatalStatus)
       ELSE mainPc' = "backend" /\ exitCode' = exitCode
    /\ UNCHANGED <<cfg, doneChan, stopMade, errChan, signalChan, sigCount, procs,
                   clientVars, watchVars>>

\* lines 28-33: backends.New
MainBackend ==
    /\ Alive /\ mainPc = "backend"
    /\ IF ~cfg.backendOk THEN Exit(FatalStatus)
       ELSE mainPc' = "mode" /\ exitCode' = exitCode
    /\ UNCHANGED <<cfg, doneChan, stopMade, errChan, signalChan, sigCount, procs,
                   clientVars, watchVars>>

\* a mutant of MainOnetime: without the os.Exit(0) of line 38 a successful render
\* falls through to lines 41-65
MainOnetimeNoExit ==
    /\ Alive /\ mainPc = "mode" /\ cfg.onetime
    /\ IF cfg.renderOk
       THEN /\ procs' = [procs EXCEPT !.renders = procs.renders + 1,
                                      !.processor = IF cfg.watch THEN "watch" ELSE "interval",
                                      !.web = TRUE, !.notified = TRUE]
            /\ stopMade' = TRUE
            /\ doneChan' = [made |-> TRUE, closed |-> FALSE, closes |-> 0]
            /\ mainPc' = "loop" /\ exitCode' = exitCode
       ELSE /\ procs' = [procs EXCEPT !.renders = procs.renders + 1]
            /\ Exit(FatalStatus)
            /\ UNCHANGED <<stopMade, doneChan>>
    /\ UNCHANGED <<cfg, errChan, signalChan, sigCount, clientVars, watchVars>>

\* lines 34-39: the one-shot render
MainOnetime ==
    /\ Alive /\ mainPc = "mode" /\ cfg.onetime
    /\ procs' = [procs EXCEPT !.renders = procs.renders + 1]
    /\ Exit(IF cfg.renderOk THEN 0 ELSE FatalStatus)
    /\ UNCHANGED <<cfg, doneChan, stopMade, errChan, signalChan, sigCount,
                   clientVars, watchVars>>

\* lines 41-65: the channels, the processor, the web server, signal.Notify
MainStartWorkers ==
    /\ Alive /\ mainPc = "mode" /\ ~cfg.onetime
    /\ stopMade' = TRUE
    /\ doneChan' = [made |-> TRUE, closed |-> FALSE, closes |-> 0]
    /\ procs' = [procs EXCEPT !.processor = IF cfg.watch THEN "watch" ELSE "interval",
                              !.web = TRUE, !.notified = TRUE]
    /\ mainPc' = "loop"
    /\ UNCHANGED <<cfg, errChan, signalChan, sigCount, exitCode, clientVars, watchVars>>

\* lines 68-69: case err := <-errChan
MainRecvErr ==
    /\ Alive /\ mainPc = "loop"
    /\ errChan > 0
    /\ errChan' = errChan - 1
    /\ UNCHANGED <<mainPc, cfg, doneChan, stopMade, signalChan, sigCount, procs, exitCode,
                   clientVars, watchVars>>

\* a mutant of CloseDone: the channel is closed only when it is still open
CloseDoneOnce(ch) ==
    IF ch.closed THEN [ch |-> ch, panic |-> FALSE]
    ELSE [ch |-> [ch EXCEPT !.closed = TRUE, !.closes = ch.closes + 1], panic |-> FALSE]

\* close(doneChan): the close of a closed channel panics
CloseDone(ch) ==
    IF ch.closed THEN [ch |-> ch, panic |-> TRUE]
    ELSE [ch |-> [ch EXCEPT !.closed = TRUE, !.closes = ch.closes + 1], panic |-> FALSE]

\* lines 70-72: case s := <-signalChan
MainRecvSignal ==
    /\ Alive /\ mainPc = "loop"
    /\ signalChan > 0
    /\ signalChan' = signalChan - 1
    /\ LET r == CloseDone(doneChan)
       IN  /\ doneChan' = r.ch
           /\ IF r.panic THEN mainPc' = "panicked" /\ exitCode' = PanicStatus
              ELSE UNCHANGED <<mainPc, exitCode>>
    /\ UNCHANGED <<cfg, stopMade, errChan, sigCount, procs, clientVars, watchVars>>

\* lines 73-74: case <-doneChan
MainRecvDone ==
    /\ Alive /\ mainPc = "loop"
    /\ doneChan.closed
    /\ Exit(0)
    /\ UNCHANGED <<cfg, doneChan, stopMade, errChan, signalChan, sigCount, procs,
                   clientVars, watchVars>>

\* the OS delivers SIGINT or SIGTERM: a send on signalChan that does not block, the
\* signal is dropped when the buffer is full
SignalDeliver ==
    /\ Alive /\ procs.notified
    /\ sigCount < MaxSignals
    /\ sigCount' = sigCount + 1
    /\ signalChan' = IF signalChan < SignalChanCap THEN signalChan + 1 ELSE signalChan
    /\ UNCHANGED <<mainPc, cfg, doneChan, stopMade, errChan, procs, exitCode,
                   clientVars, watchVars>>

\* the processor reports an error on errChan
ProcessorError ==
    /\ Alive /\ procs.processor # "none"
    /\ errChan < ErrChanCap
    /\ errChan' = errChan + 1
    /\ UNCHANGED <<mainPc, cfg, doneChan, stopMade, signalChan, sigCount, procs, exitCode,
                   clientVars, watchVars>>

ClientOff ==
    /\ c = [client |-> NoConn, machines |-> <<epNet>>, password |-> ""]
    /\ phase = "off" /\ store = EmptyStore /\ dead = {}
    /\ op = Idle /\ last = NoCmd /\ conn = NoCall /\ prev = NoPrev

MainInit ==
    /\ mainPc = "start"
    /\ cfg \in [printVersion : BOOLEAN, configOk : BOOLEAN, backendOk : BOOLEAN,
                onetime : BOOLEAN, renderOk : BOOLEAN, watch : BOOLEAN]
    /\ doneChan = NoDone /\ stopMade = FALSE
    /\ errChan = 0 /\ signalChan = 0 /\ sigCount = 0 /\ procs = NoProcs /\ exitCode = NoExit

MainNext ==
    \/ MainConfig
    \/ MainBackend
    \/ MainOnetime
    \/ MainStartWorkers
    \/ MainRecvErr
    \/ MainRecvSignal
    \/ MainRecvDone
    \/ SignalDeliver
    \/ ProcessorError

InitMain == ClientOff /\ WatchInit /\ MainInit

SpecMain == InitMain /\ [][MainNext]_vars

\* the select of line 67 takes a case that stays ready: a buffered signal stays
\* buffered and a closed channel stays closed until main takes them, and select
\* picks among the ready cases at random
SpecMainFair == SpecMain /\ WF_vars(MainRecvSignal) /\ WF_vars(MainRecvDone)

----------------------------------------------------------------------------
(* The connection manager over every endpoint list *)

ConnectInit ==
    /\ c \in [client : {NoConn}, machines : MachineLists, password : Passwords]
    /\ phase = "new"
    /\ store = EmptyStore
    /\ dead = {}
    /\ op = Idle /\ last = NoCmd /\ conn = NoCall /\ prev = NoPrev

InitConnect == ConnectInit /\ WatchInit /\ MainIdle

ConnectNext ==
    \/ NewRedisClient
    \/ \E key \in StoreKeys : Remove(key)
    \/ Return

SpecConnect == InitConnect /\ [][ConnectNext]_vars

----------------------------------------------------------------------------
(* Start-up of main() with the redis store client constructed by backends.New *)

\* a mutant of BackendErr: the error of backends.New is logged and main goes on
BackendErrLogged(t) == FALSE

\* line 29 of main: the error NewRedisClient returned
BackendErr(t) == t.err # Nil

\* lines 28-31 of main with NewRedisClient run: one tryConnect, then log.Fatal when
\* it returned an error
MainBackendRedis ==
    /\ Alive /\ mainPc = "backend" /\ phase = "new"
    /\ \E outs \in DialOutcomes(c.machines) :
         LET t == tryConnect(c.machines, c.password, outs, FreshSid(c))
         IN  /\ c' = [c EXCEPT !.client = t.conn]
             /\ conn' = [NoCall EXCEPT !.passes = 1, !.dials = t.dials, !.fatal = t.fatal,
                                       !.client = t.conn, !.err = t.err, !.rClient = t.conn]
             /\ phase' = IF t.fatal THEN "fatal" ELSE IF t.err # Nil THEN "failed" ELSE "ready"
             /\ IF t.fatal \/ BackendErr(t) THEN Exit(FatalStatus)
                ELSE mainPc' = "mode" /\ exitCode' = exitCode
    /\ dead' = {}
    /\ UNCHANGED <<store, op, last, prev, watchVars,
                   cfg, doneChan, stopMade, errChan, signalChan, sigCount, procs>>

\* the outcome of backends.New is tryConnect's, the flag backendOk is not read
StartupInit ==
    /\ ConnectInit
    /\ MainInit /\ cfg.backendOk

StartupNext ==
    \/ MainConfig
    \/ MainBackendRedis
    \/ MainOnetime
    \/ MainStartWorkers
    \/ MainRecvErr
    \/ MainRecvSignal
    \/ MainRecvDone
    \/ SignalDeliver
    \/ ProcessorError

InitStartup == StartupInit /\ WatchInit

SpecStartup == InitStartup /\ [][StartupNext]_vars

----------------------------------------------------------------------------
(* Properties *)

HardErr(e) == e # Nil /\ e # ErrNil

IsOp == op.name \in {"Set", "Remove", "GetValues"}

\* C1: in continuous mode the done channel is closed at most once whatever signals
\* arrive: no second close (a panic) happens, and a shutdown started by a signal ends
\* in exit status 0.
C1_ShutdownIdempotent ==
    /\ mainPc # "panicked"
    /\ doneChan.closes <= 1
    /\ (exitCode # NoExit /\ doneChan.closed) => exitCode = 0

\* the vars of the GetValues call in progress before a step
VarsBefore == IF op.name = "GetValues" /\ op.pc # "idle" THEN op.vars ELSE EmptyMap

C2Step ==
    op'.name = "GetValues" =>
       /\ op'.vars # VarsBefore =>
            /\ op'.ncmd = op.ncmd + 1
            /\ last'.cmd = "GET" /\ last'.err = Nil
            /\ last'.val = Lookup(store, last'.key) /\ last'.val # NoVal
            /\ op'.vars = MapPut(VarsBefore, last'.key, last'.val)
            /\ \/ last'.role = "point" /\ op.pc = "get" /\ last'.key = Replace(op.keys[op.i])
               \/ /\ last'.role = "follow" /\ op.pc = "follow"
                  /\ last'.key = Head(op.items) /\ GlobMatch(op.pattern, last'.key)
       /\ (op'.pc = "done" /\ op'.err # Nil) =>
            \/ op'.ncmd = 0 /\ conn'.err = op'.err
            \/ op'.ncmd = op.ncmd + 1 /\ last'.err = op'.err /\ HardErr(last'.err)
       /\ (op.pc = "scan" /\ op'.ncmd = op.ncmd + 1 /\ last'.err = Nil /\ last'.items = <<>>) =>
            op'.vars = op.vars /\ op'.err = Nil

\* C2: an entry enters the result map of GetValues only by a point lookup or a
\* follow-up lookup of a scanned key that succeeded, under the looked-up key and with
\* the value the lookup returned; a key absent at the lookup and unmatched by the
\* scan adds no entry and no error.
C2_OnlyLookedUpEntries == [][C2Step]_vars

C2_Witness ==
    /\ op.name = "GetValues" /\ op.pc = "done" /\ op.err = Nil
    /\ op.keys = <<kASlash, kA>>
    /\ op.vars = (kAB :> "x")

SetThenGet ==
    /\ op.name = "GetValues" /\ op.pc = "done" /\ op.err = Nil
    /\ op.after.name = "Set" /\ op.keys = <<op.after.key>>

\* C3 as stated: for every key k, a successful Set(k, v) directly followed by
\* GetValues([k]) that meets no error returns exactly {k: v}.
C3_SetThenGet == SetThenGet => op.vars = (op.after.key :> op.after.value)

\* C3 amended: for every key k that does not hold the wildcard marker "/*", a
\* successful Set(k, v) directly followed by GetValues([k]) that meets no error
\* returns exactly {k: v}.
C3_SetThenGetPlainKey ==
    (SetThenGet /\ ~HasMarker(op.after.key)) => op.vars = (op.after.key :> op.after.value)

C3_Witness ==
    /\ SetThenGet /\ ~HasMarker(op.after.key)
    /\ op.after.value = "y" /\ op.vars = (kA :> "y") /\ store[kAStar] = "x"

\* Remove(k) whose DEL reached the store
C4Remove ==
    (op.pc = "idle" /\ op'.name = "Remove" /\ last'.cmd = "DEL" /\ last'.err = Nil) =>
        IF store[op'.key] = NoVal
        THEN last'.n = 0 /\ op'.err = NotExist(op'.key) /\ store' = store
        ELSE /\ op'.err = Nil
             /\ store' = [k \in StoreKeys |-> IF k = op'.key THEN NoVal ELSE store[k]]

\* the point lookup of the GetValues([k]) that follows a successful Remove(k)
RemoveThenGet ==
    /\ op.name = "GetValues" /\ op.after.name = "Remove" /\ op.after.err = Nil
    /\ op.keys = <<op.after.key>>
    /\ op.ncmd = 1 /\ last.err # NetErr

\* C4 as stated: Remove(k) returns not-found and leaves the store alone when k is
\* absent, succeeds and removes k when it is present, and then the point lookup of
\* GetValues([k]) is not-found and the call goes on to the prefix scan.
C4_RemoveThenScan ==
    [][C4Remove /\ (RemoveThenGet => (last.err = ErrNil /\ op.pc = "scan"))]_vars

\* C4 amended: as stated, the part on the following GetValues([k]) for a key k that
\* does not hold the wildcard marker "/*".
C4_RemoveThenScanPlainKey ==
    [][C4Remove /\ ((RemoveThenGet /\ ~HasMarker(op.after.key))
                       => (last.err = ErrNil /\ op.pc = "scan"))]_vars

C4_Witness ==
    /\ RemoveThenGet /\ op.keys = <<kA>> /\ op.pc = "scan" /\ last.err = ErrNil
    /\ store[kAB] = "x"

DialsInOrder ==
    /\ Len(conn.dials) <= Len(c.machines)
    /\ \A i \in 1..Len(conn.dials) : conn.dials[i].endpoint = c.machines[i]

\* C5: an operation started on an existing session makes no reconnect attempt when
\* the probe succeeds, and exactly one pass over the endpoints when the probe fails,
\* after which it returns the connect error or works on the new session.
C5_ReconnectOnce ==
    (IsOp /\ conn.before # NoConn) =>
        IF conn.probe = "PONG"
        THEN conn.passes = 0 /\ op.rClient = conn.before /\ c.client = conn.before
        ELSE /\ conn.passes = 1 /\ DialsInOrder
             /\ \/ conn.err # Nil /\ op.pc = "done" /\ op.err = conn.err /\ op.ncmd = 0
                \/ /\ conn.err = Nil /\ op.rClient = conn.client /\ op.rClient # conn.before
                   /\ op.ncmd > 0 => last.sess = op.rClient

\* C6: every probe outcome other than PONG, a transport error or another reply,
\* resets the session and runs the reconnect step; none crashes the operation or
\* leaves it on the old session.
C6_ProbeFailureResets ==
    (IsOp /\ conn.before # NoConn /\ conn.probe \in {"neterr", "badreply"}) =>
        /\ phase # "panic"
        /\ conn.passes = 1
        /\ op.rClient # conn.before /\ c.client # conn.before

C7Step ==
    /\ (op'.name = "GetValues" /\ op'.ncmd = op.ncmd + 1
           /\ last'.role \in {"point", "scan"} /\ HardErr(last'.err)) =>
          /\ op'.pc = "done" /\ op'.err = last'.err
          /\ ~op'.varsNil /\ op'.vars = op.vars
    /\ (op.name = "GetValues" /\ op.pc = "done") =>
          /\ op'.ncmd = op.ncmd \/ op' = Idle
          /\ store' = store

\* C7: a point lookup or a scan call of GetValues that fails with an error other
\* than not-found ends the call at once with that error and the map as it was, and
\* no further store command is issued.
C7_AbortOnError == [][C7Step]_vars

C7_Witness ==
    /\ op.name = "GetValues" /\ op.pc = "done" /\ op.err = NetErr
    /\ last.role = "scan" /\ last.n > 0
    /\ op.vars # EmptyMap /\ op.i < Len(op.keys)

\* C8: an error of a follow-up lookup other than not-found is returned by GetValues.
C8_FollowUpErrorReturned ==
    (op.name = "GetValues" /\ op.pc = "done" /\ last.role = "follow" /\ HardErr(last.err))
        => op.err = last.err

C9Step ==
    (watch'.pc = "returned" /\ watch.pc # "returned") =>
        /\ watch.pc = "blocked"
        /\ stopChan.closed \/ stopChan.senders > 0
        /\ watch'.index = 0 /\ watch'.err = Nil
        /\ UNCHANGED clientVars

\* C9: WatchPrefix returns only once its stop channel was sent on or closed, then
\* it returns (0, nil) whatever its arguments; it issues no store command and leaves
\* the client alone.
C9_WatchBlocksUntilStop ==
    /\ [][C9Step]_vars
    /\ (watch.pc = "blocked" /\ (stopChan.closed \/ stopChan.senders > 0))
           ~> (watch.pc = "returned")

C9_Witness ==
    /\ watch.pc = "returned" /\ watch.waitIndex > 0 /\ watch.index = 0
    /\ stopChan.taken = 1 /\ c.client # NoConn

AllRefused == \A i \in 1..Len(conn.dials) : ~conn.dials[i].ok

\* C10: connect dials the endpoints in listed order, stops at the first that accepts
\* and returns its session, and when all refuse returns no session and the error of
\* the last endpoint.
C10_FirstAcceptOrLastError ==
    conn.passes = 1 =>
        /\ DialsInOrder
        /\ \A i \in 1..(Len(conn.dials) - 1) : ~conn.dials[i].ok
        /\ IF ~AllRefused
           THEN conn.client # NoConn /\ conn.err = Nil /\ c.client = conn.client
           ELSE /\ conn.client = NoConn /\ c.client = NoConn
                /\ ~conn.fatal => (Len(conn.dials) = Len(c.machines)
                                     /\ conn.err = DialErr(Len(c.machines)))

C10_Witness ==
    /\ conn.passes = 1 /\ Len(conn.dials) = 2 /\ AllRefused /\ ~conn.fatal
    /\ conn.err = DialErr(2)

RECURSIVE LastSlash(_)
\* the position of the last "/" of s, 0 when it has none
LastSlash(s) ==
    IF s = <<>> THEN 0 ELSE IF s[Len(s)] = "/" THEN Len(s) ELSE LastSlash(SubSeq(s, 1, Len(s) - 1))

\* an endpoint <host:port | filesystem-path>[/<database-index>] has the suffix
HasDbSuffix(e) == LastSlash(e) > 0 /\ Atoi(SubSeq(e, LastSlash(e) + 1, Len(e))).ok

EndpointAddress(e) == IF HasDbSuffix(e) THEN SubSeq(e, 1, LastSlash(e) - 1) ELSE e

EndpointDatabase(e) == IF HasDbSuffix(e) THEN Atoi(SubSeq(e, LastSlash(e) + 1, Len(e))).n ELSE 0

\* C11: every dial of connect goes over the local-socket transport when the endpoint
\* is an existing filesystem path and over the network transport otherwise, to the
\* endpoint's host:port or path without the /<database-index> suffix, with the
\* suffix as database index, 0 when there is none.
C11_EndpointParsed ==
    \A i \in 1..Len(conn.dials) :
        LET d == conn.dials[i]
        IN  /\ d.network = IF d.endpoint \in FsPaths THEN "unix" ELSE "tcp"
            /\ d.address = EndpointAddress(d.endpoint)
            /\ d.database = EndpointDatabase(d.endpoint)

\* the pattern that matches the keys under the prefix key: one "/" between the
\* prefix and the wildcard
PrefixPattern(key) ==
    IF key # <<>> /\ key[Len(key)] = "/" THEN key \o <<"*">> ELSE key \o <<"/", "*">>

\* C12: the prefix scan of GetValues for a key that was not found runs with the
\* pattern of the keys under that key: /* for the root key, /config/* for /config/
\* and for /config; every scan call of the key carries that pattern.
C12_ScanPatternOfPrefix ==
    (op.name = "GetValues" /\ op.pc \in {"scan", "follow"}) =>
        /\ op.pattern = PrefixPattern(Replace(op.keys[op.i]))
        /\ last.cmd = "SCAN" => last.key = op.pattern

C13Step ==
    /\ errChan' < errChan => UNCHANGED <<mainPc, doneChan, stopMade, signalChan, exitCode>>
    /\ (mainPc = "loop" /\ exitCode' # NoExit) => doneChan.closed

\* C13: in continuous mode a delivered signal leads to the close of the done channel
\* and then to exit status 0, also while the processor keeps sending errors; an
\* error taken from the error channel changes nothing else, and the supervisor
\* exits only after the done channel is closed.
C13_SignalLeadsToExitZero ==
    /\ [][C13Step]_vars
    /\ (mainPc = "loop" /\ signalChan > 0) ~> doneChan.closed
    /\ doneChan.closed ~> (exitCode = 0)

\* main got past initConfig and backends.New
StartedUp == ~cfg.printVersion /\ cfg.configOk /\ cfg.backendOk

\* C14: in one-shot mode the renderer runs exactly once and the process exits in the
\* same step, with status 0 when the render succeeded and the fatal status when it
\* failed; no processor and no administrative server is started, no channel is
\* made and the wait loop is never entered.
C14_OnetimeRendersOnceAndExits ==
    cfg.onetime =>
        /\ procs.processor = "none" /\ ~procs.web /\ ~procs.notified
        /\ ~doneChan.made /\ ~stopMade /\ errChan = 0 /\ signalChan = 0
        /\ mainPc \notin {"loop", "panicked"}
        /\ procs.renders = IF StartedUp /\ mainPc = "exited" THEN 1 ELSE 0
        /\ (StartedUp /\ mainPc = "exited") =>
               exitCode = IF cfg.renderOk THEN 0 ELSE FatalStatus

C14_Witness ==
    /\ cfg.onetime /\ StartedUp /\ cfg.watch /\ ~cfg.renderOk
    /\ mainPc = "exited" /\ procs.renders = 1 /\ exitCode = FatalStatus

NothingStarted ==
    /\ procs = NoProcs /\ ~doneChan.made /\ ~stopMade
    /\ op = Idle /\ last = NoCmd

\* C15: a failed configuration load, or a first connect that every endpoint refused,
\* ends the process through the fatal path in the same step: every endpoint was
\* dialed at most once, in order, and no renderer, processor or administrative
\* server was started.
C15_StartupFailureIsFatal ==
    /\ (~cfg.printVersion /\ ~cfg.configOk /\ mainPc # "start") =>
           /\ mainPc = "exited" /\ exitCode = FatalStatus
           /\ conn = NoCall /\ phase = "new" /\ NothingStarted
    /\ (conn.passes = 1 /\ conn.err # Nil) =>
           /\ mainPc = "exited" /\ exitCode = FatalStatus
           /\ c.client = NoConn /\ DialsInOrder /\ AllRefused /\ NothingStarted

C15_Witness ==
    /\ conn.passes = 1 /\ conn.err = DialErr(2) /\ Len(conn.dials) = 2 /\ ~conn.fatal
    /\ mainPc = "exited" /\ exitCode = FatalStatus /\ cfg.onetime

\* the stop channel of line 41 told its receiver to stop
StopRequested == stopChan.closed \/ stopChan.senders > 0 \/ stopChan.taken > 0

\* C16: when the process has exited after a signal taken in the wait loop, the stop
\* channel handed to the processor was closed or sent on before.
C16_StopBeforeExit ==
    (stopMade /\ doneChan.closed /\ exitCode # NoExit) => StopRequested

MatchCount(st, pattern) ==
    Cardinality({k \in StoreKeys : st[k] # NoVal /\ GlobMatch(pattern, k)})

\* ceil(matchCount / pageSize) + 1
ScanCallBound(st, pattern) == (MatchCount(st, pattern) + PageSize - 1) \div PageSize + 1

RECURSIVE CallsToZero(_, _, _)
\* the scan calls the store takes from cursor until it returns cursor 0
CallsToZero(st, pattern, cursor) ==
    LET r == ScanReply(st, cursor, pattern, "ok")
    IN  IF r.cursor = 0 THEN 1 ELSE 1 + CallsToZero(st, pattern, r.cursor)

C17Step ==
    LET sent == op'.name = "GetValues" /\ op'.ncmd = op.ncmd + 1
        scanStep == sent /\ op.pc = "scan" /\ last'.cmd = "SCAN"
        r == ScanReply(store, op.idx, op.pattern, "ok")
        pageDone == \/ scanStep /\ last'.err = Nil /\ last'.items = <<>>
                    \/ sent /\ op.pc = "follow" /\ Tail(op.items) = <<>>
        cursor == IF scanStep THEN r.cursor ELSE op.idx
    IN  /\ scanStep =>
              /\ last'.n = op.idx
              /\ op.scans = 0 <=> op.idx = 0
              /\ op'.scans = op.scans + 1 \/ op'.scans = 0
        /\ (scanStep /\ last'.err = Nil /\ op'.pc = "follow") => op'.idx = r.cursor
        /\ (sent /\ op.pc = "follow" /\ op'.pc \in {"follow", "scan"}) => op'.idx = op.idx
        /\ pageDone => IF cursor = 0 THEN op'.pc \in {"get", "done"}
                       ELSE op'.pc = "scan" /\ op'.idx = cursor
        /\ (scanStep /\ op.changes = 0
               /\ CallsToZero(store, op.pattern, 0) <= ScanCallBound(store, op.pattern)) =>
              op.scans + 1 <= ScanCallBound(store, op.pattern)

\* C17: the first scan call of a key carries cursor 0 and every later one the cursor
\* the call before returned; after the page whose cursor is 0 no further scan call
\* is made for the key and after any other page the loop goes on; so on a store
\* whose cursor is back at 0 within ceil(matchCount / pageSize) + 1 calls the key
\* takes at most that many scan calls, and a GetValues call that runs comes to its
\* return.
C17_ScanFollowsCursor ==
    /\ [][C17Step]_vars
    /\ (op.name = "GetValues" /\ op.pc \in {"get", "scan", "follow"}) ~> (op.pc = "done")

C17_Witness ==
    /\ op.name = "GetValues" /\ op.pc = "follow" /\ op.scans = 2 /\ op.idx = 0
    /\ last.cmd = "SCAN" /\ last.n = PageSize /\ op.changes = 0
    /\ CallsToZero(store, op.pattern, 0) = ScanCallBound(store, op.pattern)

\* a step of a GetValues call: its connectedClient or one of its commands
GetValuesStep == op'.name = "GetValues" /\ (op.pc = "idle" \/ op'.ncmd = op.ncmd + 1)

\* C18 as stated: no step of GetValues changes the client's session reference,
\* endpoint list or credential, whatever the outcome of the probe.
C18_GetValuesLeavesClient == [][GetValuesStep => c' = c]_vars

C18Step ==
    GetValuesStep =>
        /\ c'.machines = c.machines /\ c'.password = c.password
        /\ c'.client # c.client =>
              /\ op.pc = "idle" /\ conn'.passes = 1
              /\ conn'.before = c.client /\ conn'.probe \in {NoProbe, "neterr"}
              /\ c'.client = conn'.client
        /\ (op.pc = "idle" /\ conn'.probe = "PONG") => c'.client = c.client

\* C18 amended: GetValues never changes the endpoint list or the credential, and
\* changes the session reference only in its connect step, when the client holds
\* no session or the probe of the held one failed: the reference then becomes the
\* result of the one connect pass; the commands of the call never change it.
C18_GetValuesChangesSessionOnlyOnReconnect == [][C18Step]_vars

C18_Witness ==
    /\ op.name = "GetValues" /\ op.pc = "get" /\ op.ncmd = 0
    /\ conn.probe = "neterr" /\ conn.before = 1 /\ conn.passes = 1 /\ c.client = 2

C19Step ==
    LET called == op.pc = "idle" /\ op'.name \in {"Set", "Remove", "GetValues"}
        sent == op'.name \in {"Set", "Remove", "GetValues"} /\ op'.ncmd = op.ncmd + 1
        dropped == called /\ conn'.before # NoConn /\ conn'.passes = 1
    IN  /\ called =>
              /\ conn'.before = c.client /\ op'.rClient = conn'.rClient
              /\ op'.rClient # NoConn => op'.rClient = c'.client
        /\ dropped =>
              /\ c'.client # conn'.before /\ op'.rClient # conn'.before
              /\ c'.client = conn'.client
              /\ sent => last'.sess # conn'.before
        /\ sent =>
              /\ last'.sess = op'.rClient /\ last'.sess # NoConn /\ last'.sess = c'.client
              /\ ~called => (op'.rClient = op.rClient /\ c' = c)

\* C19: the client holds one session reference, none or a session; when an operation
\* drops the session whose probe failed, the reference becomes the result of the
\* connect pass, a session other than the dropped one or none, and no command of
\* the operation goes to the dropped session; every command of an operation is
\* issued on the session its connectedClient call returned, which is the one the
\* client holds.
C19_CommandsOnReturnedSession ==
    /\ [](c.client \in {NoConn, 1, 2} /\ (last.cmd # "none" => last.sess = c.client))
    /\ [][C19Step]_vars

C19_Witness ==
    /\ op.name = "Set" /\ op.pc = "done" /\ op.err = Nil
    /\ conn.before = 1 /\ conn.probe = "neterr" /\ conn.passes = 1
    /\ c.client = 2 /\ op.rClient = 2 /\ last.cmd = "SET" /\ last.sess = 2

C20Step ==
    LET called == op.pc = "idle" /\ op'.name \in {"Set", "Remove", "GetValues"}
        failed == called /\ conn'.passes = 1 /\ conn'.err # Nil /\ ~conn'.fatal
        fresh == called /\ c.client = NoConn
    IN  /\ failed =>
              /\ op'.pc = "done" /\ op'.err = conn'.err /\ op'.err = DialErr(Len(c.machines))
              /\ op'.ncmd = 0 /\ last' = NoCmd /\ store' = store
              /\ c'.client = NoConn /\ phase' = "ready"
        /\ fresh =>
              /\ conn'.probe = NoProbe /\ conn'.passes = 1
              /\ DialsInOrder' /\ Len(conn'.dials) >= 1
              /\ \A i \in 1..(Len(conn'.dials) - 1) : ~conn'.dials[i].ok
              /\ (AllRefused /\ ~conn.fatal)' => Len(conn'.dials) = Len(c.machines)
              /\ conn'.err = Nil =>
                    /\ c'.client # NoConn /\ op'.rClient = c'.client
                    /\ op'.name \in {"Set", "Remove"} => (op'.ncmd = 1 /\ last'.sess = c'.client)
                    /\ op'.name = "GetValues" => op'.pc = IF op'.keys = <<>> THEN "done" ELSE "get"

\* C20: an operation whose connect step is refused by every endpoint returns the
\* connect error, issues no store command and leaves the client without a session;
\* an operation called on a client without a session sends no probe and makes one
\* connect pass over the endpoint list from its first endpoint, and when one
\* accepts the operation goes on with its commands on the new session.
C20_ConnectFailureRecoverable == [][C20Step]_vars

\* an operation that found no session, left by a refused connect step, and
\* connected anew
C20_Witness ==
    /\ op.name = "Remove" /\ op.pc = "done" /\ op.err = Nil
    /\ conn.before = NoConn /\ conn.probe = NoProbe /\ conn.passes = 1
    /\ Len(conn.dials) = 2 /\ conn.dials[2].ok
    /\ c.client # NoConn /\ last.cmd = "DEL" /\ last.sess = c.client

====
